---- MODULE Spec2Model ----
(***************************************************************************)
(* Per-individual gene co-expression networks                              *)
(* (03_celltype_individual_comparison/                                     *)
(*  individual_networks_for_selected_genepairs.py).                        *)
(*                                                                         *)
(* Numbers.  An expression value or a rank is a record [nan, v]: either    *)
(* NaN or an integer.  A Spearman coefficient is kept exactly, as          *)
(* [nan, s, n, d] = s * sqrt(n / d) with n/d in lowest terms, so two       *)
(* coefficients are equal exactly when the records are.  Values of the     *)
(* Student-t and normal distribution functions stay symbolic: only their   *)
(* argument and the exact cases 0, 1/2 and 1 are known.                    *)
(* Positions are 1-based here and 0-based in the source.                   *)
(***************************************************************************)
EXTENDS Integers, Sequences, FiniteSets, TLC

VARIABLES
    \* ---- get_individual_networks_halfratioGenes -----------------------
    cells,            \* data_sc: one record [ind, x] per cell (obs row, X row)
    var_names,        \* data_sc.var.index
    fpErr,            \* ambient numpy floating-point error handling
    nanRank,          \* how the installed rankdata ranks a NaN
    pc,               \* position in the builder
    selected_genes,   \* column positions kept by select_gene_nonzeroratio
    genepairs,        \* selected_genes_sorted_genepairs
    coef_df, coef_p_df, zscore_df, zscore_p_df,
    todo,             \* individuals the for loop has still to visit
    ind_id,           \* loop variable
    individual_coefs, \* result of spearmanr_withnan for ind_id
    log,              \* what the builder printed about deleted individuals
    err,              \* where an exception left the builder ("" if none)
    \* ---- select_gene_nonzeroratio called on its own ---------------------
    f_df, f_ratio, f_out, f_pc,
    \* ---- spearmanr_withnan called on its own ----------------------------
    s_a, s_out, s_pc,
    \* ---- corr_to_z, statement by statement ------------------------------
    z_coef, z_num, z_pc, z_prob, z_score, positive_coef_probs,
    negative_coef_probs, z_probs,
    \* ---- get_individual_networks_given_celltype_condition_... -----------
    d_name, d_condition, d_file, d_dir, d_pc, d_info, d_loaded, d_celltype,
    d_tables, d_computed, d_written, d_err

builderVars == <<cells, var_names, fpErr, nanRank, pc, selected_genes,
                 genepairs, coef_df, coef_p_df, zscore_df, zscore_p_df, todo,
                 ind_id, individual_coefs, log, err>>
filterVars == <<f_df, f_ratio, f_out, f_pc>>
spearmanVars == <<s_a, s_out, s_pc>>
zVars == <<z_coef, z_num, z_pc, z_prob, z_score, positive_coef_probs,
           negative_coef_probs, z_probs>>
driverVars == <<d_name, d_condition, d_file, d_dir, d_pc, d_info, d_loaded,
                d_celltype, d_tables, d_computed, d_written, d_err>>
notBuilderVars == <<filterVars, spearmanVars, zVars, driverVars>>
vars == <<builderVars, filterVars, spearmanVars, zVars, driverVars>>

----------------------------------------------------------------------------
(* Bounds of the model and constants of the program.                       *)

MinCells == 10        \* "if cell_num > 10"
MaxOver == 1          \* an individual has at most MinCells + MaxOver cells
MaxObs == 3           \* rows of a matrix given to a function on its own
MaxLen == 3           \* length of a coefficient array given to corr_to_z
MaxRows == 2          \* rows of a table given to select_gene_nonzeroratio

----------------------------------------------------------------------------
(* Helpers.                                                                *)

Abs(x) == IF x < 0 THEN -x ELSE x

Sign(x) == IF x < 0 THEN -1 ELSE IF x > 0 THEN 1 ELSE 0

RECURSIVE GCD(_, _)
GCD(a, b) == IF b = 0 THEN a ELSE GCD(b, a % b)

RECURSIVE SumSeq(_)
SumSeq(s) == IF s = <<>> THEN 0 ELSE Head(s) + SumSeq(Tail(s))

\* The same sequence, built element by element (evaluated once).
Eager(s) == SelectSeq(s, LAMBDA x : TRUE)

Num(v) == [nan |-> FALSE, v |-> v]
NaN == [nan |-> TRUE, v |-> 0]

\* A coefficient s * sqrt(n / d).
NaNCoef == [nan |-> TRUE, s |-> 0, n |-> 0, d |-> 1]
Coef(s, n, d) == [nan |-> FALSE, s |-> s, n |-> n, d |-> d]
IsOne(c) == ~c.nan /\ c.s # 0 /\ c.n = c.d      \* |c| = 1
IsNeg(c) == ~c.nan /\ c.s < 0                   \* c < 0 (False for NaN)
IsPos(c) == ~c.nan /\ c.s > 0                   \* c > 0 (False for NaN)

----------------------------------------------------------------------------
(* Gene names are strings, here sequences of character codes; Python       *)
(* compares them lexicographically.                                        *)

Semi == <<0>>         \* the delimiter ';'

RECURSIVE StrLess(_, _)
StrLess(a, b) ==
    IF b = <<>> THEN FALSE
    ELSE IF a = <<>> THEN TRUE
    ELSE IF Head(a) # Head(b) THEN Head(a) < Head(b)
    ELSE StrLess(Tail(a), Tail(b))

\* sorted(item) for a 2-tuple (stable).
sorted(item) == IF StrLess(item[2], item[1]) THEN <<item[2], item[1]>> ELSE item

\* ';'.join(item) for a 2-tuple.
join(item) == item[1] \o Semi \o item[2]

\* itertools.combinations(range(n), 2), as positions: (1,2),(1,3),..,(2,3),..
RECURSIVE combinations(_, _, _)
combinations(i, j, n) ==
    IF i >= n THEN <<>>
    ELSE IF j > n THEN combinations(i + 1, i + 2, n)
    ELSE <<<<i, j>>>> \o combinations(i, j + 1, n)

\* np.triu_indices_from(m, 1) for an n x n matrix: the strict upper triangle
\* in row-major order.
triu_indices_from(n) ==
    LET RECURSIVE row(_, _)
        row(i, j) == IF i >= n THEN <<>>
                     ELSE IF j > n THEN row(i + 1, i + 2)
                     ELSE <<<<i, j>>>> \o row(i, j + 1)
    IN row(1, 2)

----------------------------------------------------------------------------
(* select_gene_nonzeroratio(df, ratio): ratio is the rational rn / rd.     *)
(* np.count_nonzero counts a NaN as non-zero.  With no rows the division   *)
(* is 0/0: NaN (or FloatingPointError), and NaN > ratio is False.          *)

IsNonZero(x) == x.nan \/ x.v # 0

NonZeroCount(df, g) == Cardinality({k \in 1..Len(df) : IsNonZero(df[k][g])})

OrEqualRatio(cnt, nrows, rn, rd) == cnt * rd >= rn * nrows

\* count / nrows > ratio
GreaterThanRatio(cnt, nrows, rn, rd) == cnt * rd > rn * nrows

select_gene_nonzeroratio(df, ncols, rn, rd) ==
    SelectSeq([g \in 1..ncols |-> g],
              LAMBDA g : Len(df) > 0
                         /\ GreaterThanRatio(NonZeroCount(df, g), Len(df), rn, rd))

----------------------------------------------------------------------------
(* scipy.stats.rankdata (method 'average') on one column, ranks doubled so *)
(* that they stay integers.  A column holding a NaN is ranked as the       *)
(* installed scipy does it: older releases sort the NaNs behind every      *)
(* number, each NaN a rank of its own in order of position ("last");       *)
(* newer releases return NaN for every rank of the column ("propagate").   *)

Column(a, g) == Eager([k \in 1..Len(a) |-> a[k][g]])

HasNaN(col) == \E k \in 1..Len(col) : col[k].nan

NaNCount(col) == Cardinality({k \in 1..Len(col) : col[k].nan})

rankdata(col, mode) ==
    LET n == Len(col)
        nums == {j \in 1..n : ~col[j].nan}
        less(k) == Cardinality({j \in nums : col[j].v < col[k].v})
        same(k) == Cardinality({j \in nums : col[j].v = col[k].v})
        nansBefore(k) == Cardinality({j \in 1..(k - 1) : col[j].nan})
    IN  IF HasNaN(col) /\ mode = "propagate"
        THEN [k \in 1..n |-> NaN]
        ELSE Eager([k \in 1..n |->
                 IF col[k].nan
                 THEN Num(2 * (Cardinality(nums) + nansBefore(k) + 1))
                 ELSE Num(2 * less(k) + same(k) + 1)])

(* np.corrcoef of two ranked columns: cov / sqrt(var_x * var_y), each      *)
(* scaled by n^2.  A column of zero variance gives 0/0: NaN, signalled as  *)
(* an invalid operation.                                                   *)

ScaledCov(x, y) ==
    LET n == Len(x)
    IN  n * SumSeq([k \in 1..n |-> x[k].v * y[k].v])
        - SumSeq([k \in 1..n |-> x[k].v]) * SumSeq([k \in 1..n |-> y[k].v])

ZeroVariance(x) == ~HasNaN(x) /\ ScaledCov(x, x) = 0

\* s * sqrt(num / den), in lowest terms
Reduced(s, num, den, g) == Coef(s, num \div g, den \div g)

\* c / sqrt(vx * vy)
Quotient(c, vx, vy) ==
    IF vx = 0 \/ vy = 0 THEN NaNCoef
    ELSE IF c = 0 THEN Coef(0, 0, 1)
    ELSE Reduced(Sign(c), c * c, vx * vy, GCD(c * c, vx * vy))

corrcoef(x, y) ==
    IF HasNaN(x) \/ HasNaN(y) THEN NaNCoef
    ELSE Quotient(ScaledCov(x, y), ScaledCov(x, x), ScaledCov(y, y))

(* prob = 2 * t.sf(|t_|, dof) with t_ = rs * sqrt(dof / ((rs+1)(1-rs))):   *)
(* a function of |rs| and dof, NaN for a NaN coefficient and for dof <= 0. *)
TwoSidedP(rs, dof) ==
    IF rs.nan \/ dof <= 0
    THEN [nan |-> TRUE, n |-> 0, d |-> 1, dof |-> 0]
    ELSE [nan |-> FALSE, n |-> rs.n, d |-> rs.d, dof |-> dof]

----------------------------------------------------------------------------
(* spearmanr_withnan(a, axis=0, nan_policy='propagate') for a 2-D array a  *)
(* (rows are observations).  The result is                                 *)
(*   [kind |-> "scalar", rs |-> <<<<r>>>>, prob |-> <<<<p>>>>]  a pair of scalars,  *)
(*   [kind |-> "matrix", rs, prob]                      two n x n arrays,  *)
(*   [kind |-> "raise", exc |-> ..]                     an exception.      *)

NVars(a) == IF Len(a) = 0 THEN 0 ELSE Len(a[1])

contains_nan(a) == \E k \in 1..Len(a) : \E g \in 1..Len(a[k]) : a[k][g].nan

Scalar(r, p) == [kind |-> "scalar", rs |-> <<<<r>>>>, prob |-> <<<<p>>>>, exc |-> ""]
Matrix(rs, prob) == [kind |-> "matrix", rs |-> rs, prob |-> prob, exc |-> ""]
Raise(exc) == [kind |-> "raise", rs |-> <<>>, prob |-> <<>>, exc |-> exc]

NaNP == TwoSidedP(NaNCoef, 0)

\* variable_has_nan = np.isnan(a).sum(axis=axisout): the NaN count of each
\* variable, an integer array.
NaNCounts(a) == [g \in 1..NVars(a) |-> NaNCount(Column(a, g))]

variable_has_nan(a) == NaNCounts(a)

\* rs[variable_has_nan, :] = nan; rs[:, variable_has_nan] = nan with an
\* integer index array idx: the rows and columns AT the positions idx hold
\* (0-based) are overwritten.
MaskAt(rs, hit) ==
    Eager([i \in 1..Len(rs) |-> Eager([j \in 1..Len(rs) |->
        IF i \in hit \/ j \in hit THEN NaNCoef ELSE rs[i][j]])])

MaskRowsCols(rs, idx) == MaskAt(rs, {idx[g] + 1 : g \in 1..Len(idx)})

\* line 160: a_ranked, one ranked column per variable
RankColumns(a, mode) ==
    Eager([g \in 1..NVars(a) |-> rankdata(Column(a, g), mode)])

\* line 161: rs = np.corrcoef(a_ranked)
CorrMatrix(ranked) ==
    Eager([i \in 1..Len(ranked) |-> Eager([j \in 1..Len(ranked) |->
        corrcoef(ranked[i], ranked[j])])])

\* lines 162-166: prob
ProbMatrix(rs, dof) ==
    Eager([i \in 1..Len(rs) |-> Eager([j \in 1..Len(rs) |->
        TwoSidedP(rs[i][j], dof)])])

\* An invalid operation is signalled for 0/0: in np.corrcoef for a column of
\* zero variance, and in dof / ((rs+1)(1-rs)) for dof = 0 and |rs| = 1 (only
\* 'divide' is ignored there).
InvalidSignalled(ranked, rs, dof) ==
    \/ \E g \in 1..Len(ranked) : ZeroVariance(ranked[g])
    \/ dof = 0 /\ \E g \in 1..Len(rs) : IsOne(rs[g][g])

\* lines 149-173, given the arrays of lines 159-166
SpearmanrResult(a, n_vars, idx, ranked, rs, prob, fp) ==
    IF Len(a) <= 1 THEN Scalar(NaNCoef, NaNP)
    ELSE IF contains_nan(a) /\ n_vars <= 2 THEN Scalar(NaNCoef, NaNP)
    ELSE IF n_vars = 0 THEN Raise("apply_along_axis")
    ELSE IF InvalidSignalled(ranked, rs, Len(a) - 2) /\ fp = "raise"
         THEN Raise("FloatingPointError")
    ELSE IF n_vars = 2 THEN Scalar(rs[2][1], prob[2][1])
    ELSE IF n_vars = 1 THEN Raise("scalar_item_assignment")
    ELSE IF ~contains_nan(a) THEN Matrix(rs, prob)
    ELSE IF \E g \in 1..n_vars : idx[g] >= n_vars THEN Raise("IndexError")
    ELSE Matrix(MaskRowsCols(rs, idx), prob)

SpearmanrOnCorr(a, ranked, rs, fp) ==
    SpearmanrResult(a, NVars(a), variable_has_nan(a), ranked, rs,
                    ProbMatrix(rs, Len(a) - 2), fp)

SpearmanrOnRanks(a, ranked, fp) == SpearmanrOnCorr(a, ranked, CorrMatrix(ranked), fp)

spearmanr_withnan(a, fp, mode) == SpearmanrOnRanks(a, RankColumns(a, mode), fp)

----------------------------------------------------------------------------
(* corr_to_z(coef, num).  prob[k] = t.cdf(t_statistic[k], num - 2) is the  *)
(* symbolic value P(coef[k], num - 2), of which only the class is known:   *)
(* "zero" (coef = -1), "low" (0 < P < 1/2, coef < 0), "half" (coef = 0),   *)
(* "high" (coef > 0), "one" (coef = 1), "nan" (coef NaN or num <= 2).      *)
(* An element of a probability array is the linear form a + b * P.         *)

CdfClass(c, dof) ==
    IF c.nan \/ dof <= 0 THEN "nan"
    ELSE IF IsOne(c) THEN (IF c.s < 0 THEN "zero" ELSE "one")
    ELSE IF c.s < 0 THEN "low"
    ELSE IF c.s > 0 THEN "high"
    ELSE "half"

PForm(a, b, c, dof) == [a |-> a, b |-> b, cls |-> CdfClass(c, dof), of |-> c, dof |-> dof]

\* x != 0
FormNonZero(e) ==
    CASE e.cls = "nan"  -> TRUE
      [] e.cls = "zero" -> e.a # 0
      [] e.cls = "one"  -> e.a + e.b # 0
      [] e.cls = "half" -> 2 * e.a + e.b # 0
      [] OTHER          -> e.a # 0 \/ e.b # 0

\* x == y for two forms over the same P
FormEq(e, f) ==
    CASE e.cls = "nan"  -> FALSE
      [] e.cls = "zero" -> e.a = f.a
      [] e.cls = "one"  -> e.a + e.b = f.a + f.b
      [] e.cls = "half" -> 2 * e.a + e.b = 2 * f.a + f.b
      [] OTHER          -> e.a = f.a /\ e.b = f.b

\* lines 78-79: t_statistic, prob
TCdf(coef, num) == [k \in 1..Len(coef) |-> PForm(0, 1, coef[k], num - 2)]

\* line 80: norm.ppf(prob), symbolic in the same way
NormPpf(prob) ==
    [k \in 1..Len(prob) |->
        [cls |-> CASE prob[k].cls = "zero" -> "-inf"
                   [] prob[k].cls = "low"  -> "neg"
                   [] prob[k].cls = "half" -> "zero"
                   [] prob[k].cls = "high" -> "pos"
                   [] prob[k].cls = "one"  -> "+inf"
                   [] OTHER                -> "nan",
         of |-> prob[k].of, dof |-> prob[k].dof]]

\* line 81: 1 - prob (a new array)
OneMinus(prob) ==
    [k \in 1..Len(prob) |-> [prob[k] EXCEPT !.a = 1 - prob[k].a, !.b = -prob[k].b]]

\* line 82: coef < 0, a boolean array (False at a NaN)
MaskNegative(coef) == [k \in 1..Len(coef) |-> IsNeg(coef[k])]

\* line 84: coef > 0
MaskPositive(coef) == [k \in 1..Len(coef) |-> IsPos(coef[k])]

\* lines 82 and 84: arr[mask] = 0
ZeroWhere(arr, mask) ==
    [k \in 1..Len(arr) |->
        IF mask[k] THEN [arr[k] EXCEPT !.a = 0, !.b = 0] ELSE arr[k]]

\* line 85: negative_coef_probs + positive_coef_probs
AddForms(x, y) ==
    [k \in 1..Len(x) |-> [x[k] EXCEPT !.a = x[k].a + y[k].a, !.b = x[k].b + y[k].b]]

\* The floating-point exceptions numpy signals at line 78: division by zero
\* for |coef| = 1, invalid for the square root of a negative number.  They
\* are warnings, or FloatingPointError, as the ambient error handling says.
CorrToZSignals(coef, num) ==
    \E k \in 1..Len(coef) :
        \/ IsOne(coef[k])
        \/ num - 2 < 0 /\ ~coef[k].nan

\* lines 80-86, given prob
CorrToZFrom(coef, num, fp, prob) ==
    [raised |-> fp = "raise" /\ CorrToZSignals(coef, num),
     z_score |-> NormPpf(prob),
     probs |-> AddForms(ZeroWhere(prob, MaskPositive(coef)),
                        ZeroWhere(OneMinus(prob), MaskNegative(coef)))]

corr_to_z(coef, num, fp) == CorrToZFrom(coef, num, fp, Eager(TCdf(coef, num)))

----------------------------------------------------------------------------
(* pandas tables.  A DataFrame is [index, columns, data]: the row labels,  *)
(* the column labels and, per column, the values in row order.  Row labels *)
(* are unique here (gene names are unique and hold no ';'), so a lookup by *)
(* label finds one row.                                                    *)

DataFrame(index) == [index |-> index, columns |-> <<>>, data |-> <<>>]

\* pd.DataFrame(data=values, index=index).loc[labels]
loc(index, values, labels) ==
    Eager([k \in 1..Len(labels) |->
        values[CHOOSE p \in 1..Len(index) : index[p] = labels[k]]])

\* df[key] = <one-column DataFrame>: the value is aligned on df.index
\* (a label the value lacks becomes missing); the rows of df stay.
SetItemFrame(df, key, vindex, values, missing) ==
    [index |-> df.index,
     columns |-> Append(df.columns, key),
     data |-> Append(df.data,
                Eager([k \in 1..Len(df.index) |->
                    IF \E p \in 1..Len(vindex) : vindex[p] = df.index[k]
                    THEN values[CHOOSE p \in 1..Len(vindex) : vindex[p] = df.index[k]]
                    ELSE missing]))]

\* df[key] = <ndarray of len(df) values>: set by position.
SetItemArray(df, key, values) ==
    [index |-> df.index,
     columns |-> Append(df.columns, key),
     data |-> Append(df.data, values)]

----------------------------------------------------------------------------
(* get_individual_networks_halfratioGenes, lines 176-212.                  *)

\* data_sc.obs[individual_colname].unique(): labels in order of first
\* appearance.
RECURSIVE unique(_)
unique(labels) ==
    IF labels = <<>> THEN <<>>
    ELSE LET rest == unique(SubSeq(labels, 1, Len(labels) - 1))
             last == labels[Len(labels)]
         IN  IF \E k \in 1..Len(rest) : rest[k] = last THEN rest
             ELSE Append(rest, last)

Labels(cs) == [k \in 1..Len(cs) |-> cs[k].ind]

\* data_sc.obs[data_sc.obs[individual_colname] == ind_id].shape[0]
CellNum(cs, ind) == Cardinality({k \in 1..Len(cs) : cs[k].ind = ind})

AtLeastMinimum(cell_num) == cell_num >= MinCells

AboveMinimum(cell_num) == cell_num > MinCells

\* data_df[selected_genes] restricted to the rows of one individual
Columns(rows, genes) ==
    Eager([k \in 1..Len(rows) |-> Eager([g \in 1..Len(genes) |-> rows[k].x[genes[g]]])])

IndividualDf(cs, genes, ind) ==
    Columns(SelectSeq(cs, LAMBDA c : c.ind = ind), genes)

\* line 183
PairLabels(names, genes, cmb) ==
    Eager([k \in 1..Len(cmb) |->
        join(sorted(<<names[genes[cmb[k][1]]], names[genes[cmb[k][2]]]>>))])

SortedGenepairs(names, genes) ==
    PairLabels(names, genes, combinations(1, 2, Len(genes)))

ColMajorTriu(n) ==
    LET RECURSIVE col(_, _)
        col(i, j) == IF j > n THEN <<>>
                     ELSE IF i >= j THEN col(1, j + 1)
                     ELSE <<<<i, j>>>> \o col(i + 1, j)
    IN col(1, 2)

\* m[at]
Take(m, at) == Eager([k \in 1..Len(at) |-> m[at[k][1]][at[k][2]]])

FlattenColMajor(m) == Take(m, ColMajorTriu(Len(m)))

\* m[np.triu_indices_from(m, 1)]
Flatten(m) == Take(m, triu_indices_from(Len(m)))

\* lines 177-179
data_df(cs) == Eager([k \in 1..Len(cs) |-> cs[k].x])

\* line 180
FilterRatio == <<1, 2>>     \* ratio=0.5

SelectRaises(cs, fp) == Len(cs) = 0 /\ fp = "raise"

\* lines 194-200: what the engine and the flattening give for one individual
TriuOf(r) == IF r.kind = "scalar" THEN Raise("triu_indices_from") ELSE r

EngineResult(cs, genes, ind, fp, mode) ==
    TriuOf(spearmanr_withnan(IndividualDf(cs, genes, ind), fp, mode))

AppendColumn(df, key, index, values, missing) ==
    SetItemFrame(df, key, index, loc(index, values, index), missing)

MoveLastFirst(t) ==
    [t EXCEPT !.columns = <<t.columns[Len(t.columns)]>>
                            \o SubSeq(t.columns, 1, Len(t.columns) - 1),
              !.data = <<t.data[Len(t.data)]>> \o SubSeq(t.data, 1, Len(t.data) - 1)]

PrependColumn(df, key, index, values, missing) ==
    MoveLastFirst(AppendColumn(df, key, index, values, missing))

GrowRows(df, key, index, values, missing) ==
    [AppendColumn(df, key, index, values, missing) EXCEPT !.index = @ \o <<<<>>>>]

\* lines 195-202
SetCoefColumn(df, key, index, values, missing) ==
    AppendColumn(df, key, index, values, missing)

\* lines 206-207
SetZColumn(df, key, values) == SetItemArray(df, key, values)

\* line 209: continue with the next individual
BreakLoop(t) == <<>>

OnTransformFailure(t) == Tail(t)

Start ==
    /\ UNCHANGED notBuilderVars
    /\ pc = "start"
    /\ IF SelectRaises(cells, fpErr)
       THEN /\ pc' = "raised"
            /\ err' = "select_gene_nonzeroratio"
            /\ UNCHANGED <<selected_genes, genepairs, coef_df, coef_p_df,
                           zscore_df, zscore_p_df, todo>>
       ELSE /\ selected_genes' = select_gene_nonzeroratio(data_df(cells),
                                    Len(var_names), FilterRatio[1], FilterRatio[2])
            /\ genepairs' = SortedGenepairs(var_names, selected_genes')
            /\ coef_df' = DataFrame(genepairs')
            /\ coef_p_df' = DataFrame(genepairs')
            /\ zscore_df' = DataFrame(genepairs')
            /\ zscore_p_df' = DataFrame(genepairs')
            /\ todo' = unique(Labels(cells))
            /\ pc' = "loop"
            /\ err' = ""
    /\ UNCHANGED <<cells, var_names, fpErr, nanRank, ind_id, individual_coefs, log>>

\* lines 190-192, 210-211
ExcludeLowCount ==
    /\ UNCHANGED notBuilderVars
    /\ pc = "loop" /\ todo # <<>>
    /\ ~AboveMinimum(CellNum(cells, Head(todo)))
    /\ ind_id' = Head(todo)
    /\ log' = Append(log, [ind |-> Head(todo), cell_num |-> CellNum(cells, Head(todo))])
    /\ todo' = Tail(todo)
    /\ UNCHANGED <<cells, var_names, fpErr, nanRank, pc, selected_genes, genepairs,
                   coef_df, coef_p_df, zscore_df, zscore_p_df, individual_coefs, err>>

\* lines 195-202
StoreCoefs(r) ==
    /\ r.kind = "matrix"
    /\ individual_coefs' = r
    /\ coef_df' = SetCoefColumn(coef_df, Head(todo), genepairs, Flatten(r.rs), NaNCoef)
    /\ coef_p_df' = SetCoefColumn(coef_p_df, Head(todo), genepairs,
                                  Flatten(r.prob), NaNP)

\* lines 190-202, the engine and the flattening succeed
ComputeCoefs ==
    /\ UNCHANGED notBuilderVars
    /\ pc = "loop" /\ todo # <<>>
    /\ AboveMinimum(CellNum(cells, Head(todo)))
    /\ StoreCoefs(EngineResult(cells, selected_genes, Head(todo), fpErr, nanRank))
    /\ ind_id' = Head(todo)
    /\ pc' = "transform"
    /\ UNCHANGED <<cells, var_names, fpErr, nanRank, selected_genes, genepairs,
                   zscore_df, zscore_p_df, todo, log, err>>

Propagate(r) == r.kind = "raise" /\ err' = r.exc

\* lines 190-200, an exception leaves the function
EngineRaises ==
    /\ UNCHANGED notBuilderVars
    /\ pc = "loop" /\ todo # <<>>
    /\ AboveMinimum(CellNum(cells, Head(todo)))
    /\ Propagate(EngineResult(cells, selected_genes, Head(todo), fpErr, nanRank))
    /\ ind_id' = Head(todo)
    /\ pc' = "raised"
    /\ UNCHANGED <<cells, var_names, fpErr, nanRank, selected_genes, genepairs,
                   coef_df, coef_p_df, zscore_df, zscore_p_df, todo,
                   individual_coefs, log>>

\* individual_coefs_flatten.values
CoefColumn(df, key) ==
    df.data[CHOOSE p \in 1..Len(df.columns) : df.columns[p] = key]

\* lines 206-207
StoreZ(z) ==
    /\ ~z.raised
    /\ zscore_df' = SetZColumn(zscore_df, ind_id, z.z_score)
    /\ zscore_p_df' = SetZColumn(zscore_p_df, ind_id, z.probs)

\* lines 203-207
TransformCommit ==
    /\ UNCHANGED notBuilderVars
    /\ pc = "transform"
    /\ StoreZ(corr_to_z(CoefColumn(coef_df, ind_id), CellNum(cells, ind_id), fpErr))
    /\ todo' = Tail(todo)
    /\ pc' = "loop"
    /\ UNCHANGED <<cells, var_names, fpErr, nanRank, selected_genes, genepairs,
                   coef_df, coef_p_df, ind_id, individual_coefs, log, err>>

\* lines 203-205, 208-209
TransformFailed ==
    /\ UNCHANGED notBuilderVars
    /\ pc = "transform"
    /\ corr_to_z(CoefColumn(coef_df, ind_id), CellNum(cells, ind_id), fpErr).raised
    /\ todo' = OnTransformFailure(todo)
    /\ pc' = "loop"
    /\ UNCHANGED <<cells, var_names, fpErr, nanRank, selected_genes, genepairs,
                   coef_df, coef_p_df, zscore_df, zscore_p_df, ind_id,
                   individual_coefs, log, err>>

\* line 212
Return ==
    /\ UNCHANGED notBuilderVars
    /\ pc = "loop" /\ todo = <<>>
    /\ pc' = "done"
    /\ UNCHANGED <<cells, var_names, fpErr, nanRank, selected_genes, genepairs,
                   coef_df, coef_p_df, zscore_df, zscore_p_df, todo, ind_id,
                   individual_coefs, log, err>>

----------------------------------------------------------------------------
(* Inputs of the builder: a selection of cells of up to two individuals    *)
(* over four genes.  Each individual's cells follow one expression         *)
(* pattern, a function of the cell's number k within the individual.       *)

GeneNames == << <<2>>, <<1>>, <<1, 2>>, <<3>> >>      \* "B", "A", "AB", "C"

Patterns == {"mono", "mixed", "pair", "single", "none", "nan", "nans", "flat"}

PatternRow(p, k) ==
    CASE p = "mono"   -> <<Num(k), Num(k + 1), Num(40 - k), Num((k - 6) * (k - 6) + 1)>>
      [] p = "mixed"  -> <<Num(((3 * k) % 7) + 1), Num(((5 * k) % 11) + 1), Num(k), Num((k % 2) + 1)>>
      [] p = "pair"   -> <<Num(k), Num(0), Num(((2 * k) % 5) + 1), Num(0)>>
      [] p = "single" -> <<Num(k), Num(0), Num(0), Num(0)>>
      [] p = "none"   -> <<Num(0), Num(0), Num(0), Num(0)>>
      [] p = "nan"    -> <<Num(k), Num(((3 * k) % 7) + 1),
                           IF k = 2 THEN NaN ELSE Num(((5 * k) % 11) + 1), Num((k % 4) + 1)>>
      [] p = "nans"   -> <<Num(k), IF k \in {1, 3} THEN NaN ELSE Num(((3 * k) % 7) + 1),
                           IF k < 5 THEN NaN ELSE Num(((5 * k) % 11) + 1), Num((k % 4) + 1)>>
      [] p = "flat"   -> <<Num(1), Num(k), Num(((3 * k) % 7) + 1), Num(1)>>

CellCounts == {0} \cup (MinCells..(MinCells + MaxOver))

IndividualCells(ind, p, n) == [k \in 1..n |-> [ind |-> ind, x |-> PatternRow(p, k)]]

RECURSIVE Interleave(_, _)
Interleave(a, b) ==
    IF a = <<>> THEN b
    ELSE IF b = <<>> THEN a
    ELSE <<Head(a), Head(b)>> \o Interleave(Tail(a), Tail(b))

Selection(layout, px, nx, py, ny) ==
    IF layout = "block"
    THEN IndividualCells("X", px, nx) \o IndividualCells("Y", py, ny)
    ELSE Interleave(IndividualCells("Y", py, ny), IndividualCells("X", px, nx))

BuilderInit ==
    /\ \E layout \in {"block", "interleave"}, px \in Patterns, py \in Patterns,
          nx \in CellCounts, ny \in CellCounts :
          cells = Selection(layout, px, nx, py, ny)
    /\ var_names = GeneNames
    /\ fpErr \in {"warn", "raise"}
    /\ nanRank \in {"last", "propagate"}
    /\ pc = "start"
    /\ selected_genes = <<>>
    /\ genepairs = <<>>
    /\ coef_df = DataFrame(<<>>)
    /\ coef_p_df = DataFrame(<<>>)
    /\ zscore_df = DataFrame(<<>>)
    /\ zscore_p_df = DataFrame(<<>>)
    /\ todo = <<>>
    /\ ind_id = ""
    /\ individual_coefs = Raise("")
    /\ log = <<>>
    /\ err = ""

FilterIdle == f_df = <<>> /\ f_ratio = <<0, 1>> /\ f_out = <<>> /\ f_pc = "idle"

SpearmanIdle == s_a = <<>> /\ s_out = Raise("") /\ s_pc = "idle"

ZIdle ==
    /\ z_coef = <<>> /\ z_num = 0 /\ z_pc = "idle" /\ z_prob = <<>>
    /\ z_score = <<>> /\ positive_coef_probs = <<>>
    /\ negative_coef_probs = <<>> /\ z_probs = <<>>

DriverIdle ==
    /\ d_name = "" /\ d_condition = "" /\ d_file = "" /\ d_dir = ""
    /\ d_pc = "idle" /\ d_info = "" /\ d_loaded = FALSE /\ d_celltype = 0
    /\ d_tables = <<>> /\ d_computed = 0 /\ d_written = {} /\ d_err = ""

BuilderIdle ==
    /\ cells = <<>> /\ var_names = <<>>
    /\ pc = "idle" /\ selected_genes = <<>> /\ genepairs = <<>>
    /\ coef_df = DataFrame(<<>>) /\ coef_p_df = DataFrame(<<>>)
    /\ zscore_df = DataFrame(<<>>) /\ zscore_p_df = DataFrame(<<>>)
    /\ todo = <<>> /\ ind_id = "" /\ individual_coefs = Raise("")
    /\ log = <<>> /\ err = ""

Init == BuilderInit /\ FilterIdle /\ SpearmanIdle /\ ZIdle /\ DriverIdle

BuilderNext ==
    \/ Start
    \/ ExcludeLowCount
    \/ ComputeCoefs
    \/ EngineRaises
    \/ TransformCommit
    \/ TransformFailed
    \/ Return

Next == BuilderNext

Spec == Init /\ [][Next]_vars

----------------------------------------------------------------------------
(* Properties of get_individual_networks_halfratioGenes, under Spec.       *)

Individuals == {cells[k].ind : k \in 1..Len(cells)}

HasColumn(df, key) == \E p \in 1..Len(df.columns) : df.columns[p] = key

Logged(ind) ==
    \E p \in 1..Len(log) : log[p] = [ind |-> ind, cell_num |-> CellNum(cells, ind)]

\* corr_to_z fails for an individual whose coefficient column is in coef_df
TransformFails(ind) ==
    corr_to_z(CoefColumn(coef_df, ind), CellNum(cells, ind), fpErr).raised

\* C1 as stated: on return, an individual is a column of all four output
\* tables exactly if it has more than 10 cells, and an excluded individual
\* has a log line with its cell count.
C1_ColumnIffAboveTen ==
    pc = "done" =>
        \A ind \in Individuals :
            /\ HasColumn(coef_df, ind) <=> CellNum(cells, ind) > MinCells
            /\ HasColumn(coef_p_df, ind) <=> CellNum(cells, ind) > MinCells
            /\ HasColumn(zscore_df, ind) <=> CellNum(cells, ind) > MinCells
            /\ HasColumn(zscore_p_df, ind) <=> CellNum(cells, ind) > MinCells
            /\ CellNum(cells, ind) <= MinCells => Logged(ind)

\* C1 amended: on return, an individual is a column of the coefficient and
\* coefficient-p tables exactly if it has more than 10 cells; it is a column
\* of the z-score and z-score-p tables exactly if it has more than 10 cells
\* and corr_to_z did not fail for it; an excluded individual has a log line
\* with its cell count.
C1_ColumnIffAboveTenAndTransformed ==
    pc = "done" =>
        \A ind \in Individuals :
            /\ HasColumn(coef_df, ind) <=> CellNum(cells, ind) > MinCells
            /\ HasColumn(coef_p_df, ind) <=> CellNum(cells, ind) > MinCells
            /\ HasColumn(zscore_df, ind) <=>
                   (CellNum(cells, ind) > MinCells /\ ~TransformFails(ind))
            /\ HasColumn(zscore_p_df, ind) <=>
                   (CellNum(cells, ind) > MinCells /\ ~TransformFails(ind))
            /\ CellNum(cells, ind) <= MinCells => Logged(ind)

C1_Witness ==
    /\ pc = "done"
    /\ \E a \in Individuals, b \in Individuals :
          /\ CellNum(cells, a) = MinCells /\ Logged(a) /\ ~HasColumn(coef_df, a)
          /\ CellNum(cells, b) = MinCells + 1
          /\ HasColumn(coef_df, b) /\ HasColumn(zscore_df, b)

C2_FailedIndividual(ind) ==
    /\ HasColumn(coef_df, ind) /\ HasColumn(coef_p_df, ind)
    /\ ~HasColumn(zscore_df, ind) /\ ~HasColumn(zscore_p_df, ind)

\* C2: when corr_to_z fails for an included individual, the individual has
\* no column in the z-score and z-score-p tables, keeps its columns in the
\* coefficient and coefficient-p tables, and the loop goes on with the next
\* individual, the tables as they were; when the loop returns, every
\* individual has been visited.
C2_TransformFailureSkipsZ ==
    /\ [](\A ind \in Individuals :
            (HasColumn(coef_df, ind) /\ TransformFails(ind)) => C2_FailedIndividual(ind))
    /\ [](pc = "done" =>
            \A ind \in Individuals : HasColumn(coef_df, ind) \/ Logged(ind))
    /\ [][(pc = "transform" /\ TransformFails(ind_id)) =>
            /\ pc' = "loop"
            /\ todo # <<>> /\ Head(todo) = ind_id /\ todo' = Tail(todo)
            /\ <<coef_df, coef_p_df, zscore_df, zscore_p_df>>' =
                   <<coef_df, coef_p_df, zscore_df, zscore_p_df>>]_vars

C2_Witness ==
    /\ pc = "done"
    /\ Len(coef_df.columns) = 2
    /\ TransformFails(coef_df.columns[1])
    /\ C2_FailedIndividual(coef_df.columns[1])
    /\ HasColumn(zscore_df, coef_df.columns[2])

\* C4 as stated: an included individual whose engine result is NaN or a
\* scalar, because at most 2 genes passed the filter or because its data
\* hold a missing value, never makes the builder raise.
C4_NaNOrScalarNeverRaises ==
    ~ /\ pc = "raised"
      /\ err # "select_gene_nonzeroratio"
      /\ CellNum(cells, ind_id) > MinCells
      /\ \/ Len(selected_genes) <= 2
         \/ contains_nan(IndividualDf(cells, selected_genes, ind_id))

PairUniverse ==
    SortedGenepairs(var_names,
        select_gene_nonzeroratio(data_df(cells), Len(var_names), 1, 2))

C6_TableOk(df, universe) ==
    /\ df.index = universe
    /\ Len(df.data) = Len(df.columns)
    /\ \A p \in 1..Len(df.data) : Len(df.data[p]) = Len(universe)

C6_AllTablesOk(universe) ==
    /\ genepairs = universe
    /\ C6_TableOk(coef_df, universe) /\ C6_TableOk(coef_p_df, universe)
    /\ C6_TableOk(zscore_df, universe) /\ C6_TableOk(zscore_p_df, universe)

\* C6: from the moment the gene-pair universe is computed, the row index of
\* each of the four tables is that universe, in its order, and every column
\* has one value per row.
C6_RowIndexFixed ==
    pc \in {"loop", "transform", "done", "raised"} /\ err # "select_gene_nonzeroratio"
        => C6_AllTablesOk(PairUniverse)

C6_Witness ==
    /\ pc = "done"
    /\ Len(genepairs) = 6
    /\ Len(coef_df.columns) = 2 /\ Len(zscore_p_df.columns) = 2

RowOf(label) == CHOOSE p \in 1..Len(genepairs) : genepairs[p] = label

GeneName(i) == var_names[selected_genes[i]]

C9_ColumnMatches(c, m) ==
    \A i \in 1..Len(selected_genes), j \in 1..Len(selected_genes) :
        i < j =>
            /\ join(sorted(<<GeneName(i), GeneName(j)>>))
                 = join(sorted(<<GeneName(j), GeneName(i)>>))
            /\ \E p \in 1..Len(genepairs) :
                 genepairs[p] = join(sorted(<<GeneName(j), GeneName(i)>>))
            /\ coef_df.data[c][RowOf(join(sorted(<<GeneName(j), GeneName(i)>>)))]
                 = m.rs[i][j]
            /\ coef_p_df.data[c][RowOf(join(sorted(<<GeneName(i), GeneName(j)>>)))]
                 = m.prob[i][j]

\* C9: for every individual with a coefficient column and all filtered genes
\* at positions i < j, the column's value at the row labelled with the sorted,
\* ';'-joined pair of names (whichever order the names are given in) is entry
\* [i, j] of the individual's correlation matrix.
C9_FlattenMatchesPairs ==
    \A c \in 1..Len(coef_df.columns) :
        C9_ColumnMatches(c,
            spearmanr_withnan(IndividualDf(cells, selected_genes, coef_df.columns[c]),
                              fpErr, nanRank))

C9_Witness ==
    /\ Len(selected_genes) = 4
    /\ Len(coef_df.columns) >= 1
    /\ \E i \in 1..6, j \in 1..6 :
          /\ coef_df.data[1][i] # coef_df.data[1][j]
          /\ ~coef_df.data[1][i].nan /\ ~coef_df.data[1][j].nan
    /\ \E i \in 1..3, j \in 2..4 : i < j /\ StrLess(GeneName(j), GeneName(i))

RECURSIVE IsSubsequence(_, _)
IsSubsequence(s, t) ==
    IF s = <<>> THEN TRUE
    ELSE IF t = <<>> THEN FALSE
    ELSE IF Head(s) = Head(t) THEN IsSubsequence(Tail(s), Tail(t))
    ELSE IsSubsequence(s, Tail(t))

EncounterOrder ==
    SelectSeq(unique(Labels(cells)), LAMBDA ind : CellNum(cells, ind) > MinCells)

C10_ColumnsOk(df) ==
    /\ IsSubsequence(df.columns, EncounterOrder)
    /\ \A p \in 1..Len(df.columns), q \in 1..Len(df.columns) :
          df.columns[p] = df.columns[q] => p = q

\* C10: on return, the columns of each table are a subsequence of the
\* individuals with more than 10 cells, listed in order of first appearance,
\* and no column appears twice.
C10_ColumnsInEncounterOrder ==
    pc = "done" =>
        /\ C10_ColumnsOk(coef_df) /\ C10_ColumnsOk(coef_p_df)
        /\ C10_ColumnsOk(zscore_df) /\ C10_ColumnsOk(zscore_p_df)

C10_Witness ==
    /\ pc = "done"
    /\ coef_df.columns = <<"Y", "X">>
    /\ zscore_df.columns = <<"X">>

----------------------------------------------------------------------------
(* select_gene_nonzeroratio called on its own.                             *)

notFilterVars == <<builderVars, spearmanVars, zVars, driverVars>>

\* the matrices of n rows and m columns over the values vals
Matrices(n, m, vals) == [1..n -> [1..m -> vals]]

Ratios == {<<0, 1>>, <<1, 4>>, <<1, 3>>, <<1, 2>>, <<2, 3>>, <<1, 1>>}

FilterInit ==
    /\ \E n \in 0..MaxRows : f_df \in Matrices(n, 3, {Num(0), Num(2), NaN})
    /\ f_ratio \in Ratios
    /\ f_out = <<>>
    /\ f_pc = "call"
    /\ fpErr \in {"warn", "raise"} /\ nanRank = "last"
    /\ BuilderIdle /\ SpearmanIdle /\ ZIdle /\ DriverIdle

\* lines 71-74
FilterReturns ==
    /\ UNCHANGED notFilterVars
    /\ f_pc = "call" /\ ~SelectRaises(f_df, fpErr)
    /\ f_out' = select_gene_nonzeroratio(f_df, 3, f_ratio[1], f_ratio[2])
    /\ f_pc' = "done"
    /\ UNCHANGED <<f_df, f_ratio>>

\* line 72 with no rows, the 0/0 raised as FloatingPointError
FilterRaises ==
    /\ UNCHANGED notFilterVars
    /\ f_pc = "call" /\ SelectRaises(f_df, fpErr)
    /\ f_pc' = "raised"
    /\ UNCHANGED <<f_df, f_ratio, f_out>>

FilterNext == FilterReturns \/ FilterRaises

SpecFilter == FilterInit /\ [][FilterNext]_vars

FractionAbove(g) == NonZeroCount(f_df, g) * f_ratio[2] > f_ratio[1] * Len(f_df)

FractionEquals(g) == NonZeroCount(f_df, g) * f_ratio[2] = f_ratio[1] * Len(f_df)

InResult(g) == \E p \in 1..Len(f_out) : f_out[p] = g

\* C8: the result holds exactly the columns whose count of non-zero entries,
\* divided by the number of rows, is strictly greater than r, in column
\* order: a column at exactly r or without a non-zero entry is left out, a
\* column non-zero in every row (of at least one) is kept for every r < 1.
C8_StrictlyAboveRatioInOrder ==
    f_pc = "done" =>
        /\ \A g \in 1..3 :
              /\ InResult(g) <=> FractionAbove(g)
              /\ FractionEquals(g) => ~InResult(g)
              /\ NonZeroCount(f_df, g) = 0 => ~InResult(g)
              /\ (/\ Len(f_df) > 0 /\ NonZeroCount(f_df, g) = Len(f_df)
                  /\ f_ratio[1] < f_ratio[2]) => InResult(g)
        /\ \A p \in 1..Len(f_out), q \in 1..Len(f_out) : p < q => f_out[p] < f_out[q]

C8_Witness ==
    /\ f_pc = "done"
    /\ f_ratio = <<1, 2>>
    /\ Len(f_df) = 2
    /\ NonZeroCount(f_df, 1) = 2 /\ NonZeroCount(f_df, 2) = 1
    /\ NonZeroCount(f_df, 3) = 2
    /\ f_out = <<1, 3>>

----------------------------------------------------------------------------
(* spearmanr_withnan called on its own.                                    *)

notSpearmanVars == <<cells, var_names, pc, selected_genes, genepairs, coef_df,
                     coef_p_df, zscore_df, zscore_p_df, todo, ind_id,
                     individual_coefs, log, err, filterVars, zVars, driverVars>>

SpearmanInit ==
    /\ \E n \in {1, MaxObs}, m \in 1..3 :
          s_a \in Matrices(n, m, {Num(1), Num(2), NaN})
    /\ s_out = Raise("")
    /\ s_pc = "call"
    /\ fpErr \in {"warn", "raise"} /\ nanRank \in {"last", "propagate"}
    /\ BuilderIdle /\ FilterIdle /\ ZIdle /\ DriverIdle

\* lines 139-173
SpearmanReturns ==
    /\ UNCHANGED <<notSpearmanVars, fpErr, nanRank>>
    /\ s_pc = "call"
    /\ s_out' = spearmanr_withnan(s_a, fpErr, nanRank)
    /\ s_out'.kind # "raise"
    /\ s_pc' = "done"
    /\ UNCHANGED s_a

SpearmanRaises ==
    /\ UNCHANGED <<notSpearmanVars, fpErr, nanRank>>
    /\ s_pc = "call"
    /\ s_out' = spearmanr_withnan(s_a, fpErr, nanRank)
    /\ s_out'.kind = "raise"
    /\ s_pc' = "raised"
    /\ UNCHANGED s_a

SpearmanNext == SpearmanReturns \/ SpearmanRaises

SpecSpearman == SpearmanInit /\ [][SpearmanNext]_vars

NoConstantVariable(a) ==
    \A g \in 1..NVars(a) :
        \E k \in 1..Len(a), l \in 1..Len(a) :
            ~a[k][g].nan /\ ~a[l][g].nan /\ a[k][g] # a[l][g]

\* C3 as stated, for matrices in which no variable is constant (a constant
\* variable has no correlation for a reason of its own): with more than 2
\* variables and a missing value present, entry [i, j] of the returned
\* correlation is NaN exactly if variable i or variable j holds a missing
\* value, and so is entry [i, j] of the returned p-value.
C3_NaNOnlyForContaminated ==
    (/\ s_pc = "done" /\ s_out.kind = "matrix"
     /\ contains_nan(s_a) /\ NoConstantVariable(s_a)) =>
        \A i \in 1..NVars(s_a), j \in 1..NVars(s_a) :
            /\ s_out.rs[i][j].nan <=>
                   (HasNaN(Column(s_a, i)) \/ HasNaN(Column(s_a, j)))
            /\ s_out.prob[i][j].nan <=>
                   (HasNaN(Column(s_a, i)) \/ HasNaN(Column(s_a, j)))

----------------------------------------------------------------------------
(* corr_to_z, statement by statement.                                      *)

notZVars == <<cells, var_names, pc, selected_genes, genepairs, coef_df,
              coef_p_df, zscore_df, zscore_p_df, todo, ind_id,
              individual_coefs, log, err, filterVars, spearmanVars,
              driverVars, fpErr, nanRank>>

\* NaN, -1, -1/2, 0, 1/2, 1
CoefValues == {NaNCoef, Coef(-1, 1, 1), Coef(-1, 1, 4), Coef(0, 0, 1),
               Coef(1, 1, 4), Coef(1, 1, 1)}

ZInit ==
    /\ \E n \in 1..MaxLen : z_coef \in [1..n -> CoefValues]
    /\ z_num \in {2, MinCells + 1}
    /\ z_pc = "l78"
    /\ z_prob = <<>> /\ z_score = <<>> /\ positive_coef_probs = <<>>
    /\ negative_coef_probs = <<>> /\ z_probs = <<>>
    /\ fpErr \in {"warn", "raise"} /\ nanRank = "last"
    /\ BuilderIdle /\ FilterIdle /\ SpearmanIdle /\ DriverIdle

\* lines 78-79
Z78 ==
    /\ UNCHANGED notZVars
    /\ z_pc = "l78" /\ ~(fpErr = "raise" /\ CorrToZSignals(z_coef, z_num))
    /\ z_prob' = TCdf(z_coef, z_num)
    /\ z_pc' = "l80"
    /\ UNCHANGED <<z_coef, z_num, z_score, positive_coef_probs,
                   negative_coef_probs, z_probs>>

\* line 78, a floating-point exception raised
Z78Raises ==
    /\ UNCHANGED notZVars
    /\ z_pc = "l78" /\ fpErr = "raise" /\ CorrToZSignals(z_coef, z_num)
    /\ z_pc' = "raised"
    /\ UNCHANGED <<z_coef, z_num, z_prob, z_score, positive_coef_probs,
                   negative_coef_probs, z_probs>>

\* line 80
Z80 ==
    /\ UNCHANGED notZVars
    /\ z_pc = "l80"
    /\ z_score' = NormPpf(z_prob)
    /\ z_pc' = "l81"
    /\ UNCHANGED <<z_coef, z_num, z_prob, positive_coef_probs,
                   negative_coef_probs, z_probs>>

\* line 81
Z81 ==
    /\ UNCHANGED notZVars
    /\ z_pc = "l81"
    /\ positive_coef_probs' = OneMinus(z_prob)
    /\ z_pc' = "l82"
    /\ UNCHANGED <<z_coef, z_num, z_prob, z_score, negative_coef_probs, z_probs>>

\* line 82
Z82 ==
    /\ UNCHANGED notZVars
    /\ z_pc = "l82"
    /\ positive_coef_probs' = ZeroWhere(positive_coef_probs, MaskNegative(z_coef))
    /\ z_pc' = "l83"
    /\ UNCHANGED <<z_coef, z_num, z_prob, z_score, negative_coef_probs, z_probs>>

\* line 83: negative_coef_probs is another name of the array prob
Z83 ==
    /\ UNCHANGED notZVars
    /\ z_pc = "l83"
    /\ negative_coef_probs' = z_prob
    /\ z_pc' = "l84"
    /\ UNCHANGED <<z_coef, z_num, z_prob, z_score, positive_coef_probs, z_probs>>

\* line 84: the assignment writes the one array both names denote
Z84 ==
    /\ UNCHANGED notZVars
    /\ z_pc = "l84"
    /\ negative_coef_probs' = ZeroWhere(negative_coef_probs, MaskPositive(z_coef))
    /\ z_prob' = negative_coef_probs'
    /\ z_pc' = "l85"
    /\ UNCHANGED <<z_coef, z_num, z_score, positive_coef_probs, z_probs>>

\* lines 85-86
Z85 ==
    /\ UNCHANGED notZVars
    /\ z_pc = "l85"
    /\ z_probs' = AddForms(negative_coef_probs, positive_coef_probs)
    /\ z_pc' = "done"
    /\ UNCHANGED <<z_coef, z_num, z_prob, z_score, positive_coef_probs,
                   negative_coef_probs>>

ZNext == Z78 \/ Z78Raises \/ Z80 \/ Z81 \/ Z82 \/ Z83 \/ Z84 \/ Z85

SpecZ == ZInit /\ [][ZNext]_vars

\* The statements compute what corr_to_z, taken as one function, returns.
ZStepsAgree ==
    /\ z_pc = "done" =>
          /\ ~corr_to_z(z_coef, z_num, fpErr).raised
          /\ z_score = corr_to_z(z_coef, z_num, fpErr).z_score
          /\ z_probs = corr_to_z(z_coef, z_num, fpErr).probs
    /\ z_pc = "raised" => corr_to_z(z_coef, z_num, fpErr).raised

\* C5 as stated, for the elements whose probability is a number: in an array
\* holding a positive and a negative coefficient, at most one of
\* positive_coef_probs and negative_coef_probs is non-zero at every element
\* (one whose coefficient is exactly 0 included), and the returned signed
\* probability equals the one that is non-zero.
C5_SignProbabilitiesExclusive ==
    (/\ z_pc = "done"
     /\ \E k \in 1..Len(z_coef) : IsPos(z_coef[k])
     /\ \E k \in 1..Len(z_coef) : IsNeg(z_coef[k])) =>
        \A k \in 1..Len(z_coef) :
            z_probs[k].cls # "nan" =>
                /\ ~(FormNonZero(positive_coef_probs[k])
                     /\ FormNonZero(negative_coef_probs[k]))
                /\ FormNonZero(positive_coef_probs[k])
                      => FormEq(z_probs[k], positive_coef_probs[k])
                /\ FormNonZero(negative_coef_probs[k])
                      => FormEq(z_probs[k], negative_coef_probs[k])

----------------------------------------------------------------------------
(* get_individual_networks_halfratioGenes as one call (lines 176-212), for *)
(* the driver: the loop of the actions above, folded over the individuals. *)

Tables(pairs) ==
    [raised |-> FALSE, exc |-> "",
     coef_df |-> DataFrame(pairs), coef_p_df |-> DataFrame(pairs),
     zscore_df |-> DataFrame(pairs), zscore_p_df |-> DataFrame(pairs)]

RECURSIVE BuilderLoop(_, _, _, _, _, _, _)

\* lines 203-209
AfterTransform(cs, genes, pairs, t, inds, fp, mode, z) ==
    IF z.raised
    THEN BuilderLoop(cs, genes, pairs, t, OnTransformFailure(inds), fp, mode)
    ELSE BuilderLoop(cs, genes, pairs,
             [t EXCEPT !.zscore_df = SetZColumn(@, Head(inds), z.z_score),
                       !.zscore_p_df = SetZColumn(@, Head(inds), z.probs)],
             Tail(inds), fp, mode)

AfterCoefs(cs, genes, pairs, t, inds, fp, mode) ==
    AfterTransform(cs, genes, pairs, t, inds, fp, mode,
        corr_to_z(CoefColumn(t.coef_df, Head(inds)), CellNum(cs, Head(inds)), fp))

\* lines 195-202
AfterEngine(cs, genes, pairs, t, inds, fp, mode, r) ==
    IF r.kind = "raise"
    THEN [t EXCEPT !.raised = TRUE, !.exc = r.exc]
    ELSE AfterCoefs(cs, genes, pairs,
             [t EXCEPT !.coef_df = SetCoefColumn(@, Head(inds), pairs,
                                                 Flatten(r.rs), NaNCoef),
                       !.coef_p_df = SetCoefColumn(@, Head(inds), pairs,
                                                   Flatten(r.prob), NaNP)],
             inds, fp, mode)

\* lines 190-211
BuilderLoop(cs, genes, pairs, t, inds, fp, mode) ==
    IF inds = <<>> THEN t
    ELSE IF ~AboveMinimum(CellNum(cs, Head(inds)))
    THEN BuilderLoop(cs, genes, pairs, t, Tail(inds), fp, mode)
    ELSE AfterEngine(cs, genes, pairs, t, inds, fp, mode,
                     EngineResult(cs, genes, Head(inds), fp, mode))

\* lines 183-189
BuilderWithPairs(cs, genes, pairs, fp, mode) ==
    BuilderLoop(cs, genes, pairs, Tables(pairs), unique(Labels(cs)), fp, mode)

\* lines 180-181
BuilderWithGenes(cs, names, genes, fp, mode) ==
    BuilderWithPairs(cs, genes, SortedGenepairs(names, genes), fp, mode)

get_individual_networks_halfratioGenes(cs, names, fp, mode) ==
    IF SelectRaises(cs, fp)
    THEN [Tables(<<>>) EXCEPT !.raised = TRUE, !.exc = "select_gene_nonzeroratio"]
    ELSE BuilderWithGenes(cs, names,
             select_gene_nonzeroratio(data_df(cs), Len(names),
                                      FilterRatio[1], FilterRatio[2]),
             fp, mode)

\* The loop, step by step, ends as the one call does.
SameOutcome(b) ==
    /\ pc = "done" =>
          /\ ~b.raised
          /\ <<coef_df, coef_p_df, zscore_df, zscore_p_df>>
               = <<b.coef_df, b.coef_p_df, b.zscore_df, b.zscore_p_df>>
    /\ pc = "raised" => b.raised /\ b.exc = err

BuilderStepsAgree ==
    pc \in {"done", "raised"} =>
        SameOutcome(get_individual_networks_halfratioGenes(cells, var_names,
                                                           fpErr, nanRank))

----------------------------------------------------------------------------
(* The driver, lines 215-249, with DATASET (lines 23-68).                  *)

celltypes == <<"CD4T", "CD8T", "monocyte", "NK", "B", "DC">>

KnownDatasets == {"onemillionv2", "onemillionv3", "stemiv2", "ng"}

\* DATASET.chosen_condition (not set for 'ng')
chosen_condition(name) ==
    IF name \in {"onemillionv2", "onemillionv3"}
    THEN [UT |-> "UT", stimulated |-> "3h"]
    ELSE [UT |-> "t8w", stimulated |-> "Baseline"]

KnownConditions == {"UT", "stimulated"}

\* The values of the timepoint column of each dataset's file.
Timepoints(name) ==
    IF name \in {"onemillionv2", "onemillionv3"} THEN <<"UT", "3h", "24h">>
    ELSE IF name = "stemiv2" THEN <<"Baseline", "t24h", "t8w">>
    ELSE <<"">>

\* The cells of a file: for every cell type and timepoint, individual X with
\* MinCells + 1 cells and individual Y with MinCells cells.  In a "pairgenes"
\* file the monocytes express two genes only; a "nocells" file is empty.
Labelled(cs, ct, time) ==
    Eager([k \in 1..Len(cs) |->
        [ct |-> ct, time |-> time, ind |-> cs[k].ind, x |-> cs[k].x]])

FilePattern(file, ct) ==
    IF file = "pairgenes" /\ ct = "monocyte" THEN "pair" ELSE "mixed"

FileBlock(file, ct, time) ==
    Labelled(Selection("block", FilePattern(file, ct), MinCells + 1,
                       FilePattern(file, ct), MinCells), ct, time)

RECURSIVE Concat(_)
Concat(ss) == IF ss = <<>> THEN <<>> ELSE Head(ss) \o Concat(Tail(ss))

FileCells(file, name) ==
    IF file = "nocells" THEN <<>>
    ELSE Concat([c \in 1..Len(celltypes) |->
             Concat([t \in 1..Len(Timepoints(name)) |->
                 FileBlock(file, celltypes[c], Timepoints(name)[t])])])

\* lines 225-230
data_selected(file, name, condition, celltype) ==
    IF name = "ng"
    THEN SelectSeq(FileCells(file, name), LAMBDA c : c.ct = celltype)
    ELSE SelectSeq(FileCells(file, name),
                   LAMBDA c : c.ct = celltype
                              /\ c.time = chosen_condition(name)[condition])

ConditionKeyError(name, condition) ==
    name # "ng" /\ condition \notin DOMAIN chosen_condition(name)

DriverInit ==
    /\ d_name \in KnownDatasets \cup {"onemillion"}
    /\ d_condition \in KnownConditions \cup {"3h"}
    /\ d_file \in {"all", "pairgenes", "nocells"}
    /\ d_dir \in {"no_parent", "parent", "exists"}
    /\ d_pc = "start"
    /\ d_info = "" /\ d_loaded = FALSE /\ d_celltype = 0 /\ d_tables = <<>>
    /\ d_computed = 0 /\ d_written = {} /\ d_err = ""
    /\ fpErr \in {"warn", "raise"} /\ nanRank = "last"
    /\ BuilderIdle /\ FilterIdle /\ SpearmanIdle /\ ZIdle

notDriverVars == <<builderVars, filterVars, spearmanVars, zVars>>

\* line 219: DATASET(datasetname), lines 24-54
DatasetKnown ==
    /\ UNCHANGED notDriverVars
    /\ d_pc = "start" /\ d_name \in KnownDatasets
    /\ d_info' = d_name
    /\ d_pc' = "load"
    /\ UNCHANGED <<d_name, d_condition, d_file, d_dir, d_loaded, d_celltype,
                   d_tables, d_computed, d_written, d_err>>

\* line 219, lines 55-56
DatasetUnknown ==
    /\ UNCHANGED notDriverVars
    /\ d_pc = "start" /\ d_name \notin KnownDatasets
    /\ d_pc' = "raised"
    /\ d_err' = "IOError"
    /\ UNCHANGED <<d_name, d_condition, d_file, d_dir, d_info, d_loaded,
                   d_celltype, d_tables, d_computed, d_written>>

\* lines 220-221: load_dataset, lines 58-68
LoadDataset ==
    /\ UNCHANGED notDriverVars
    /\ d_pc = "load"
    /\ d_loaded' = TRUE
    /\ d_celltype' = 1
    /\ d_pc' = "select"
    /\ UNCHANGED <<d_name, d_condition, d_file, d_dir, d_info, d_tables,
                   d_computed, d_written, d_err>>

\* lines 228-230: dataset.chosen_condition[condition] with an unknown key
SelectKeyError ==
    /\ UNCHANGED notDriverVars
    /\ d_pc = "select" /\ ConditionKeyError(d_name, d_condition)
    /\ d_pc' = "raised"
    /\ d_err' = "KeyError"
    /\ UNCHANGED <<d_name, d_condition, d_file, d_dir, d_info, d_loaded,
                   d_celltype, d_tables, d_computed, d_written>>

\* lines 231-236
BuilderCall ==
    get_individual_networks_halfratioGenes(
        data_selected(d_file, d_name, d_condition, celltypes[d_celltype]),
        GeneNames, fpErr, nanRank)

Returned(b) ==
    /\ ~b.raised
    /\ d_tables' = <<b.coef_df, b.coef_p_df, b.zscore_df, b.zscore_p_df>>

Raised(b) == b.raised /\ d_err' = b.exc

\* lines 223-237, the builder returns
BuildReturns ==
    /\ UNCHANGED notDriverVars
    /\ d_pc = "select" /\ ~ConditionKeyError(d_name, d_condition)
    /\ Returned(BuilderCall)
    /\ d_computed' = d_computed + 1
    /\ d_pc' = "save"
    /\ UNCHANGED <<d_name, d_condition, d_file, d_dir, d_info, d_loaded,
                   d_celltype, d_written, d_err>>

\* lines 223-236, an exception leaves the builder
BuildRaises ==
    /\ UNCHANGED notDriverVars
    /\ d_pc = "select" /\ ~ConditionKeyError(d_name, d_condition)
    /\ Raised(BuilderCall)
    /\ d_computed' = d_computed + 1
    /\ d_pc' = "raised"
    /\ UNCHANGED <<d_name, d_condition, d_file, d_dir, d_info, d_loaded,
                   d_celltype, d_tables, d_written>>

\* lines 238-248: the directory is made if missing, two tables are written
SaveTables ==
    /\ UNCHANGED notDriverVars
    /\ d_pc = "save" /\ d_dir # "no_parent"
    /\ d_dir' = "exists"
    /\ d_written' = d_written \cup {<<celltypes[d_celltype], "coefs">>,
                                    <<celltypes[d_celltype], "zscores">>}
    /\ IF d_celltype < Len(celltypes)
       THEN d_celltype' = d_celltype + 1 /\ d_pc' = "select"
       ELSE d_celltype' = d_celltype /\ d_pc' = "done"
    /\ UNCHANGED <<d_name, d_condition, d_file, d_info, d_loaded, d_tables,
                   d_computed, d_err>>

\* lines 240-241: os.mkdir below a directory that does not exist
SaveRaises ==
    /\ UNCHANGED notDriverVars
    /\ d_pc = "save" /\ d_dir = "no_parent"
    /\ d_pc' = "raised"
    /\ d_err' = "FileNotFoundError"
    /\ UNCHANGED <<d_name, d_condition, d_file, d_dir, d_info, d_loaded,
                   d_celltype, d_tables, d_computed, d_written>>

DriverNext ==
    \/ DatasetKnown \/ DatasetUnknown \/ LoadDataset \/ SelectKeyError
    \/ BuildReturns \/ BuildRaises \/ SaveTables \/ SaveRaises

SpecDriver == DriverInit /\ [][DriverNext]_vars

\* C7 as stated: with an unknown dataset identifier or an unknown condition
\* identifier the run never completes, and no dataset is loaded, no gene
\* filtering or correlation is run and no file is written, whatever the
\* dataset ('ng' included).
C7_UnknownIdentifierFailsFast ==
    (d_name \notin KnownDatasets \/ d_condition \notin KnownConditions) =>
        /\ d_pc # "done"
        /\ ~d_loaded
        /\ d_computed = 0
        /\ d_written = {}

====
